---- MODULE Spec2Model ----
(***************************************************************************)
(* A model of password_generator.py: PasswordGenerator.generate_password,  *)
(* generate_passphrase, analyze_strength and the password branch of main.  *)
(*                                                                         *)
(* A character is its Unicode code point and a Python str is a sequence of *)
(* code points.  The values the secure random source returns               *)
(* (secrets.choice, secrets.randbelow, SystemRandom().shuffle) are inputs  *)
(* of a call: each operation is a function of its arguments and of the     *)
(* values drawn, and the actions enumerate bounded families of draws.      *)
(***************************************************************************)
EXTENDS Integers, Sequences, FiniteSets

\* pc: "call" before the operation op has run on args, "done" after it;
\* random: the values the random source returns during the call;
\* result: what the call returned or raised
VARIABLES pc, op, args, random, result

vars == <<pc, op, args, random, result>>

----------------------------------------------------------------------------
(* Bounds of the model *)

\* generate_password is called with length 3 .. MaxLength
MaxLength == 4
\* each per-class minimum count is drawn from 0 .. MaxMin
MaxMin == 2
\* the filler draws of one call repeat a freely drawn block of this length
FillPeriod == 3
\* the shuffle's index draws are i - d (floored at 0) for d in 0 .. ShuffleSpread
ShuffleSpread == 1
\* analyze_strength is called with every string of up to MaxBody sampled
\* characters, followed by 0 .. MaxPad padding characters
MaxBody == 4
MaxPad == 12
\* generate_passphrase is called with 0 .. MaxWords words
MaxWords == 4
\* the word draws of one call step through the word list by 0 .. MaxStride
MaxStride == 2

----------------------------------------------------------------------------
(* Sequences *)

Range(s) == {s[i] : i \in 1..Len(s)}

Max(a, b) == IF a >= b THEN a ELSE b

Min(a, b) == IF a <= b THEN a ELSE b

\* Python's [x for _ in range(n)] with a fixed x: empty when n <= 0
Repeat(x, n) == [i \in 1..Max(n, 0) |-> x]

\* the number of positions of s holding a member of S
CountIn(s, S) == Cardinality({i \in 1..Len(s) : s[i] \in S})

\* all sequences t with Len(t) = Len(sets) and t[i] \in sets[i]
RECURSIVE Product(_)
Product(sets) ==
    IF Len(sets) = 0 THEN {<<>>}
    ELSE {<<x>> \o t : x \in Head(sets), t \in Product(Tail(sets))}

----------------------------------------------------------------------------
(* PasswordGenerator.__init__ *)

\* string.ascii_lowercase, "a" .. "z"
lowercase == [i \in 1..26 |-> 96 + i]

\* string.ascii_uppercase, "A" .. "Z"
uppercase == [i \in 1..26 |-> 64 + i]

\* string.digits, "0" .. "9"
digits == [i \in 1..10 |-> 47 + i]

\* "!@#$%^&*()_+-=[]{}|;:,.<>?"
symbols ==
    <<33, 64, 35, 36, 37, 94, 38, 42, 40, 41, 95, 43, 45, 61, 91, 93, 123, 125,
      124, 59, 58, 44, 46, 60, 62, 63>>

\* "il1Lo0O" with the digits forgotten: "ilLoO"
ambiguous_no_digits == <<105, 108, 76, 111, 79>>

\* "il1Lo0O"
ambiguous == <<105, 108, 49, 76, 111, 48, 79>>

----------------------------------------------------------------------------
(* generate_password *)

\* the length below which generate_password refuses
MinLength == 4

\* ''.join(c for c in chars if c not in self.ambiguous)
StripAmbiguous(chars) == SelectSeq(chars, LAMBDA c : c \notin Range(ambiguous))

\* chars of a filtered class: stripped when exclude_ambiguous is set
ClassChars(chars, exclude_ambiguous) ==
    IF exclude_ambiguous THEN StripAmbiguous(chars) ELSE chars

\* the alphabet each class is drawn from in a call with arguments a;
\* the symbols are not filtered
LowerChars(a) == ClassChars(lowercase, a.exclude_ambiguous)

UpperChars(a) == ClassChars(uppercase, a.exclude_ambiguous)

DigitChars(a) == ClassChars(digits, a.exclude_ambiguous)

SymbolChars(a) == symbols

\* char_pool after the four blocks
CharPool(a) ==
    (IF a.include_lowercase THEN LowerChars(a) ELSE <<>>)
    \o (IF a.include_uppercase THEN UpperChars(a) ELSE <<>>)
    \o (IF a.include_digits THEN DigitChars(a) ELSE <<>>)
    \o (IF a.include_symbols THEN SymbolChars(a) ELSE <<>>)

\* the required draws with the digits block's draws left out
RequiredSlotsNoDigits(a) ==
    (IF a.include_lowercase THEN Repeat(LowerChars(a), a.min_lowercase) ELSE <<>>)
    \o (IF a.include_uppercase THEN Repeat(UpperChars(a), a.min_uppercase) ELSE <<>>)
    \o (IF a.include_symbols THEN Repeat(SymbolChars(a), a.min_symbols) ELSE <<>>)

\* one entry per secrets.choice call that fills required_chars, in call
\* order: the alphabet that call draws from
RequiredSlots(a) ==
    (IF a.include_lowercase THEN Repeat(LowerChars(a), a.min_lowercase) ELSE <<>>)
    \o (IF a.include_uppercase THEN Repeat(UpperChars(a), a.min_uppercase) ELSE <<>>)
    \o (IF a.include_digits THEN Repeat(DigitChars(a), a.min_digits) ELSE <<>>)
    \o (IF a.include_symbols THEN Repeat(SymbolChars(a), a.min_symbols) ELSE <<>>)

\* the check with >= for >
ExceedsLengthOffByOne(required_chars, length) == Len(required_chars) >= length

\* len(required_chars) > length
ExceedsLength(required_chars, length) == Len(required_chars) > length

\* the filler count without the required characters taken off
RemainingLengthWhole(length, required_chars) == length

\* remaining_length = length - len(required_chars)
RemainingLength(length, required_chars) == length - Len(required_chars)

\* x[i], x[j] = x[j], x[i] on 0-based positions
Swap(x, i, j) == [x EXCEPT ![i + 1] = x[j + 1], ![j + 1] = x[i + 1]]

\* random.shuffle: for i in reversed(range(1, len(x))): j = randbelow(i + 1);
\* swap x[i], x[j].  js[i] is the j drawn at step i.
RECURSIVE ShuffleFrom(_, _, _)
ShuffleFrom(x, js, i) ==
    IF i < 1 THEN x ELSE ShuffleFrom(Swap(x, i, js[i]), js, i - 1)

Shuffle(x, js) == ShuffleFrom(x, js, Len(x) - 1)

Raise(error, message) ==
    [kind |-> "raise", error |-> error, message |-> message, value |-> <<>>]

Return(value) ==
    [kind |-> "return", error |-> "", message |-> "", value |-> value]

\* generate_password with arguments a, where the secrets.choice calls for
\* required_chars return rnd.required, those for the filler return
\* rnd.filler and the shuffle draws the indices rnd.shuffle
generate_password(a, rnd) ==
    IF a.length < MinLength
    THEN Raise("ValueError", "Password length must be at least 4 characters")
    ELSE IF \E k \in 1..Len(RequiredSlots(a)) : Len(RequiredSlots(a)[k]) = 0
    THEN Raise("IndexError", "Cannot choose from an empty sequence")
    ELSE IF Len(CharPool(a)) = 0
    THEN Raise("ValueError", "At least one character type must be selected")
    ELSE IF ExceedsLength(rnd.required, a.length)
    THEN Raise("ValueError", "Required minimum characters exceed password length")
    ELSE Return(Shuffle(
            rnd.required
                \o SubSeq(rnd.filler, 1, RemainingLength(a.length, rnd.required)),
            rnd.shuffle))

----------------------------------------------------------------------------
(* The values drawn in a call of generate_password *)

\* the characters the model lets secrets.choice return in one call: those of
\* one of four palettes,
\*   "a", "A", "1", "2", "3", "!"  (every class, three digits in a row),
\*   "i", "L", "0",
\*   "l", "O", "@"                 and
\*   "o", "z", "?".
\* Together they hold each of the ambiguous characters i, l, 1, L, o, 0, O;
\* a call draws an ambiguous character only if the alphabet it draws from
\* still holds it.
SamplePalettes ==
    {{97, 65, 49, 50, 51, 33},
     {105, 76, 48},
     {108, 79, 64},
     {111, 122, 63}}

Sample(chars, p) == Range(chars) \cap p

\* the draws for required_chars: one sampled character per required slot
RequiredDraws(a, p) ==
    Product([k \in 1..Len(RequiredSlots(a)) |-> Sample(RequiredSlots(a)[k], p)])

\* the draws for n filler characters: a block b of FillPeriod sampled
\* characters of the pool, then either the block again and again or its last
\* character again and again
FillerDraws(a, n, p) ==
    {[i \in 1..Max(n, 0) |-> b[((i - 1) % FillPeriod) + 1]] :
        b \in [1..FillPeriod -> Sample(CharPool(a), p)]}
    \cup {[i \in 1..Max(n, 0) |-> b[Min(i, FillPeriod)]] :
        b \in [1..FillPeriod -> Sample(CharPool(a), p)]}

\* the index draws of the shuffle of n characters: j = max(0, i - d)
ShuffleDraws(n) ==
    {[i \in 1..Max(n - 1, 0) |-> Max(0, i - d)] : d \in 0..ShuffleSpread}

NoDraws == [required |-> <<>>, filler |-> <<>>, shuffle |-> <<>>]

\* secrets.choice returning the first character every time
FirstDraws(a) == [k \in 1..Len(RequiredSlots(a)) |-> RequiredSlots(a)[k][1]]

\* the families of draws of one call.  A call that raises before it draws,
\* or whose outcome no draw changes, gets one family member.
Draws(a) ==
    IF \/ a.length < MinLength
       \/ \E k \in 1..Len(RequiredSlots(a)) : Len(RequiredSlots(a)[k]) = 0
       \/ Len(CharPool(a)) = 0
    THEN {NoDraws}
    ELSE IF ExceedsLength(RequiredSlots(a), a.length)
    THEN {[required |-> FirstDraws(a), filler |-> <<>>, shuffle |-> <<>>]}
    ELSE UNION {
            {[required |-> r, filler |-> f, shuffle |-> s] :
                r \in RequiredDraws(a, p),
                f \in FillerDraws(
                        a, RemainingLength(a.length, RequiredSlots(a)), p),
                s \in ShuffleDraws(
                        Len(RequiredSlots(a))
                            + RemainingLength(a.length, RequiredSlots(a)))} :
            p \in SamplePalettes}

----------------------------------------------------------------------------
(* generate_passphrase *)

\* word_list
word_list == <<
    <<97, 112, 112, 108, 101>>,  \* apple
    <<98, 114, 97, 118, 101>>,  \* brave
    <<99, 108, 111, 117, 100>>,  \* cloud
    <<100, 97, 110, 99, 101>>,  \* dance
    <<101, 97, 103, 108, 101>>,  \* eagle
    <<102, 108, 97, 109, 101>>,  \* flame
    <<103, 114, 97, 99, 101>>,  \* grace
    <<104, 97, 112, 112, 121>>,  \* happy
    <<105, 109, 97, 103, 105, 110, 101>>,  \* imagine
    <<106, 117, 110, 103, 108, 101>>,  \* jungle
    <<107, 110, 105, 103, 104, 116>>,  \* knight
    <<108, 105, 103, 104, 116>>,  \* light
    <<109, 97, 103, 105, 99>>,  \* magic
    <<110, 97, 116, 117, 114, 101>>,  \* nature
    <<111, 99, 101, 97, 110>>,  \* ocean
    <<112, 101, 97, 99, 101>>,  \* peace
    <<113, 117, 105, 101, 116>>,  \* quiet
    <<114, 105, 118, 101, 114>>,  \* river
    <<115, 116, 111, 114, 109>>,  \* storm
    <<116, 105, 103, 101, 114>>,  \* tiger
    <<117, 110, 105, 116, 121>>,  \* unity
    <<118, 105, 108, 108, 97, 103, 101>>,  \* village
    <<119, 105, 115, 100, 111, 109>>,  \* wisdom
    <<120, 101, 110, 105, 97, 108>>,  \* xenial
    <<121, 101, 108, 108, 111, 119>>,  \* yellow
    <<122, 101, 98, 114, 97>>,  \* zebra
    <<97, 110, 99, 104, 111, 114>>,  \* anchor
    <<98, 114, 105, 100, 103, 101>>,  \* bridge
    <<99, 97, 115, 116, 108, 101>>,  \* castle
    <<100, 114, 97, 103, 111, 110>>,  \* dragon
    <<101, 97, 114, 116, 104>>,  \* earth
    <<102, 111, 114, 101, 115, 116>>,  \* forest
    <<103, 97, 108, 97, 120, 121>>,  \* galaxy
    <<104, 97, 114, 98, 111, 114>>,  \* harbor
    <<105, 115, 108, 97, 110, 100>>,  \* island
    <<106, 111, 117, 114, 110, 101, 121>>,  \* journey
    <<107, 105, 110, 103, 100, 111, 109>>,  \* kingdom
    <<108, 101, 103, 101, 110, 100>>,  \* legend
    <<109, 111, 117, 110, 116, 97, 105, 110>>,  \* mountain
    <<110, 111, 98, 108, 101>>   \* noble
>>

\* secrets.randbelow(1000)
RandomLimit == 1000

\* str.upper and str.lower of one character of an ASCII word
ToUpper(c) == IF c \in 97..122 THEN c - 32 ELSE c

ToLower(c) == IF c \in 65..90 THEN c + 32 ELSE c

\* word.capitalize(): the first character upper-cased, the rest lower-cased
Capitalize(word) ==
    [i \in 1..Len(word) |-> IF i = 1 THEN ToUpper(word[i]) ELSE ToLower(word[i])]

\* str(n) for n >= 0: the decimal digits, no leading zero
RECURSIVE Str(_)
Str(n) == IF n < 10 THEN <<48 + n>> ELSE Str(n \div 10) \o <<48 + (n % 10)>>

\* the words run together, the separator forgotten
RECURSIVE JoinNoSeparator(_, _)
JoinNoSeparator(separator, words) ==
    IF Len(words) = 0 THEN <<>>
    ELSE Head(words) \o JoinNoSeparator(separator, Tail(words))

\* separator.join(words)
RECURSIVE Join(_, _)
Join(separator, words) ==
    IF Len(words) = 0 THEN <<>>
    ELSE IF Len(words) = 1 THEN Head(words)
    ELSE Head(words) \o separator \o Join(separator, Tail(words))

\* generate_passphrase with arguments a, where the secrets.choice calls
\* return r.words and secrets.randbelow returns r.number
generate_passphrase(a, r) ==
    LET drawn == [i \in 1..Max(a.num_words, 0) |-> r.words[i]]
        words == IF a.capitalize
                 THEN [i \in 1..Len(drawn) |-> Capitalize(drawn[i])]
                 ELSE drawn
    IN  Return(Join(a.separator, words) \o a.separator \o Str(r.number))

----------------------------------------------------------------------------
(* analyze_strength *)

\* the length from which the length check earns its full score
StrongLength == 12

\* the length from which the length check earns its middle score
FairLength == 8

\* the length check with > for >=
LengthScoreStrict(length) ==
    IF length > StrongLength THEN 25 ELSE IF length > FairLength THEN 15 ELSE 5

\* the score of the length check
LengthScore(length) ==
    IF length >= StrongLength THEN 25 ELSE IF length >= FairLength THEN 15 ELSE 5

\* the feedback of the length check
LengthFeedback(length) ==
    IF length >= StrongLength THEN <<>>
    ELSE IF length >= FairLength THEN <<"Consider using at least 12 characters">>
    ELSE <<"Password is too short - use at least 8 characters">>

\* re.search(set, password) for a one-character class
SearchClass(password, S) == \E i \in 1..Len(password) : password[i] \in S

\* [a-z]
LowerClass == 97..122

\* [A-Z]
UpperClass == 65..90

\* the runs <<first, last>> of code points of the Unicode decimal digits
\* (general category Nd, Unicode 14.0): the characters \d matches in a str
\* pattern compiled without re.ASCII
DecimalDigitRanges ==
    {<<48, 57>>, <<1632, 1641>>, <<1776, 1785>>, <<1984, 1993>>,
     <<2406, 2415>>, <<2534, 2543>>, <<2662, 2671>>, <<2790, 2799>>,
     <<2918, 2927>>, <<3046, 3055>>, <<3174, 3183>>, <<3302, 3311>>,
     <<3430, 3439>>, <<3558, 3567>>, <<3664, 3673>>, <<3792, 3801>>,
     <<3872, 3881>>, <<4160, 4169>>, <<4240, 4249>>, <<6112, 6121>>,
     <<6160, 6169>>, <<6470, 6479>>, <<6608, 6617>>, <<6784, 6793>>,
     <<6800, 6809>>, <<6992, 7001>>, <<7088, 7097>>, <<7232, 7241>>,
     <<7248, 7257>>, <<42528, 42537>>, <<43216, 43225>>, <<43264, 43273>>,
     <<43472, 43481>>, <<43504, 43513>>, <<43600, 43609>>, <<44016, 44025>>,
     <<65296, 65305>>, <<66720, 66729>>, <<68912, 68921>>, <<69734, 69743>>,
     <<69872, 69881>>, <<69942, 69951>>, <<70096, 70105>>, <<70384, 70393>>,
     <<70736, 70745>>, <<70864, 70873>>, <<71248, 71257>>, <<71360, 71369>>,
     <<71472, 71481>>, <<71904, 71913>>, <<72016, 72025>>, <<72784, 72793>>,
     <<73040, 73049>>, <<73120, 73129>>, <<92768, 92777>>, <<92864, 92873>>,
     <<93008, 93017>>, <<120782, 120831>>, <<123200, 123209>>,
     <<123632, 123641>>, <<125264, 125273>>, <<130032, 130041>>}

\* \d on a str: every Unicode decimal digit, ASCII or not
DigitClass == UNION {r[1]..r[2] : r \in DecimalDigitRanges}

\* [!@#$%^&*()_+\-=\[\]{}|;:,.<>?]
SymbolClass ==
    {33, 64, 35, 36, 37, 94, 38, 42, 40, 41, 95, 43, 45, 61, 91, 93, 123, 125,
     124, 59, 58, 44, 46, 60, 62, 63}

\* re.search(r'(.)\1{2,}', password): "." matches any character but "\n"
SearchRepeat(password) ==
    \E i \in 1..(Len(password) - 2) :
        /\ password[i] # 10
        /\ password[i + 1] = password[i]
        /\ password[i + 2] = password[i]

\* the alternatives 012, 123, 234, 345, 456, 567, 678, 789, 890
SequentialRuns == {<<48 + k, 48 + k + 1, 48 + ((k + 2) % 10)>> : k \in 0..8}

\* re.search(r'(012|123|234|345|456|567|678|789|890)', password)
SearchSequential(password) ==
    \E i \in 1..(Len(password) - 2) :
        <<password[i], password[i + 1], password[i + 2]>> \in SequentialRuns

\* the strength level of a score
Strength(score) ==
    IF score >= 85 THEN "Very Strong"
    ELSE IF score >= 70 THEN "Strong"
    ELSE IF score >= 50 THEN "Moderate"
    ELSE IF score >= 30 THEN "Weak"
    ELSE "Very Weak"

\* True counts 1 in sum([...])
BoolInt(b) == IF b THEN 1 ELSE 0

analyze_strength(password) ==
    LET length == Len(password)
        has_lower == SearchClass(password, LowerClass)
        has_upper == SearchClass(password, UpperClass)
        has_digit == SearchClass(password, DigitClass)
        has_symbol == SearchClass(password, SymbolClass)
        char_variety ==
            BoolInt(has_lower) + BoolInt(has_upper) + BoolInt(has_digit)
                + BoolInt(has_symbol)
        score ==
            LengthScore(length) + char_variety * 15
                + (IF ~SearchRepeat(password) THEN 10 ELSE 0)
                + (IF ~SearchSequential(password) THEN 10 ELSE 0)
        feedback ==
            LengthFeedback(length)
                \o (IF ~has_lower THEN <<"Add lowercase letters">> ELSE <<>>)
                \o (IF ~has_upper THEN <<"Add uppercase letters">> ELSE <<>>)
                \o (IF ~has_digit THEN <<"Add numbers">> ELSE <<>>)
                \o (IF ~has_symbol THEN <<"Add special characters">> ELSE <<>>)
                \o (IF ~SearchRepeat(password) THEN <<>>
                    ELSE <<"Avoid repeating characters">>)
                \o (IF ~SearchSequential(password) THEN <<>>
                    ELSE <<"Avoid sequential numbers">>)
    IN  [score |-> score,
         strength |-> Strength(score),
         feedback |-> feedback,
         length |-> length,
         has_lowercase |-> has_lower,
         has_uppercase |-> has_upper,
         has_digits |-> has_digit,
         has_symbols |-> has_symbol]

----------------------------------------------------------------------------
(* generate_multiple and the password branch of main *)

\* [self.generate_password(**kwargs) for _ in range(count)], the i-th call
\* drawing rnds[i]; the first call that raises ends it
RECURSIVE generate_multiple(_, _, _)
generate_multiple(count, kwargs, rnds) ==
    IF count <= 0 THEN Return(<<>>)
    ELSE LET first == generate_password(kwargs, Head(rnds))
             rest == generate_multiple(count - 1, kwargs, Tail(rnds))
         IN  IF first.kind = "raise" THEN first
             ELSE IF rest.kind = "raise" THEN rest
             ELSE Return(<<first.value>> \o rest.value)

\* the keyword arguments main passes; the minimum counts keep their
\* defaults
MainKwargs(cli) ==
    [length |-> cli.length,
     include_uppercase |-> ~cli.no_uppercase,
     include_lowercase |-> ~cli.no_lowercase,
     include_digits |-> ~cli.no_digits,
     include_symbols |-> ~cli.no_symbols,
     exclude_ambiguous |-> cli.exclude_ambiguous,
     min_uppercase |-> 1, min_lowercase |-> 1,
     min_digits |-> 1, min_symbols |-> 1]

\* main without --analyze and --passphrase: the passwords printed, the
\* analysis printed with a single password, the exit code and the error
\* message
main_generate(cli, rnds) ==
    LET passwords == generate_multiple(cli.count, MainKwargs(cli), rnds)
    IN  IF passwords.kind = "raise"
        THEN IF passwords.error = "ValueError"
             THEN [kind |-> "exit", code |-> 1, stderr |-> passwords.message,
                   passwords |-> <<>>, analysis |-> <<>>]
             ELSE [kind |-> "uncaught", code |-> 1, stderr |-> passwords.message,
                   passwords |-> <<>>, analysis |-> <<>>]
        ELSE [kind |-> "exit", code |-> 0, stderr |-> "",
              passwords |-> passwords.value,
              analysis |->
                IF cli.count = 1
                THEN <<analyze_strength(passwords.value[1])>>
                ELSE <<>>]

----------------------------------------------------------------------------
(* The calls of generate_password and of main: the arguments and the values
   drawn are chosen before the call, one step runs it. *)

NoResult == [kind |-> "none"]

\* the argument records generate_password is called with
GenArgs ==
    [length : (MinLength - 1)..MaxLength,
     include_uppercase : BOOLEAN, include_lowercase : BOOLEAN,
     include_digits : BOOLEAN, include_symbols : BOOLEAN,
     exclude_ambiguous : BOOLEAN,
     min_uppercase : 0..MaxMin, min_lowercase : 0..MaxMin,
     min_digits : 0..MaxMin, min_symbols : 0..MaxMin]

\* the values of --length main is run with: around the shortest length
\* allowed and around the length that earns the full length score
MainLengths ==
    {MinLength - 1, MinLength, StrongLength - 1, StrongLength, StrongLength + 1}

\* the command lines main is run with; --count is 0 or 1
MainArgs ==
    [length : MainLengths,
     no_uppercase : BOOLEAN, no_lowercase : BOOLEAN,
     no_digits : BOOLEAN, no_symbols : BOOLEAN,
     exclude_ambiguous : BOOLEAN,
     count : 0..1]

\* the values drawn by the count calls of generate_password
MainDraws(cli) == Product([i \in 1..cli.count |-> Draws(MainKwargs(cli))])

InitGeneratePassword ==
    /\ pc = "call"
    /\ op = "generate_password"
    /\ args \in GenArgs
    /\ random \in Draws(args)
    /\ result = NoResult

InitMain ==
    /\ pc = "call"
    /\ op = "main"
    /\ args \in MainArgs
    /\ random \in MainDraws(args)
    /\ result = NoResult

Init == InitGeneratePassword \/ InitMain

\* a call of generate_password
GeneratePassword ==
    /\ pc = "call"
    /\ op = "generate_password"
    /\ result' = generate_password(args, random)
    /\ pc' = "done"
    /\ UNCHANGED <<op, args, random>>

\* a run of main that prints passwords
MainGenerate ==
    /\ pc = "call"
    /\ op = "main"
    /\ result' = main_generate(args, random)
    /\ pc' = "done"
    /\ UNCHANGED <<op, args, random>>

Next == GeneratePassword \/ MainGenerate

Spec == Init /\ [][Next]_vars

----------------------------------------------------------------------------
(* What the claims speak of *)

\* the calls of generate_password that returned in this state, each with its
\* arguments and the password returned
Generated ==
    IF pc = "done" /\ op = "generate_password" /\ result.kind = "return"
    THEN {[a |-> args, password |-> result.value]}
    ELSE IF pc = "done" /\ op = "main" /\ result.kind = "exit"
    THEN {[a |-> MainKwargs(args), password |-> result.passwords[i]] :
            i \in 1..Len(result.passwords)}
    ELSE {}

\* the class names, and per class the include flag and the minimum count of
\* an argument record
Classes == {"lowercase", "uppercase", "digits", "symbols"}

Included(a, c) ==
    CASE c = "lowercase" -> a.include_lowercase
      [] c = "uppercase" -> a.include_uppercase
      [] c = "digits" -> a.include_digits
      [] c = "symbols" -> a.include_symbols

Minimum(a, c) ==
    CASE c = "lowercase" -> a.min_lowercase
      [] c = "uppercase" -> a.min_uppercase
      [] c = "digits" -> a.min_digits
      [] c = "symbols" -> a.min_symbols

\* the ambiguous characters i, l, 1, L, o, 0, O
AmbiguousSet == {105, 108, 49, 76, 111, 48, 79}

\* the alphabet of a class as the specification gives it: a-z, A-Z, 0-9 and
\* the symbol string, the first three without the ambiguous characters when
\* they are excluded
Alphabet(c, exclude) ==
    CASE c = "lowercase" -> {x \in 97..122 : exclude => x \notin AmbiguousSet}
      [] c = "uppercase" -> {x \in 65..90 : exclude => x \notin AmbiguousSet}
      [] c = "digits" -> {x \in 48..57 : exclude => x \notin AmbiguousSet}
      [] c = "symbols" ->
            {33, 64, 35, 36, 37, 94, 38, 42, 40, 41, 95, 43, 45, 61, 91, 93,
             123, 125, 124, 59, 58, 44, 46, 60, 62, 63}

\* the sum of the minimum counts of the classes in S
RECURSIVE SumMinimum(_, _)
SumMinimum(a, S) ==
    IF S = {} THEN 0
    ELSE LET c == CHOOSE x \in S : TRUE
         IN  Minimum(a, c) + SumMinimum(a, S \ {c})

IncludedClasses(a) == {c \in Classes : Included(a, c)}

\* C1: every password generate_password returns has exactly `length`
\* characters, whatever was drawn.
C1_LengthExact ==
    \A g \in Generated : Len(g.password) = g.a.length

\* C1 witness: a returned password of the longest length called with, made
\* of required characters and of filler characters.
C1_Witness ==
    /\ pc = "done" /\ op = "generate_password" /\ result.kind = "return"
    /\ Len(random.required) >= 2
    /\ Len(random.filler) >= 1
    /\ Len(result.value) = MaxLength

\* C2: a returned password holds, for each included class with minimum
\* count m > 0, at least m characters of that class's alphabet (stripped of
\* the ambiguous characters when they are excluded).
C2_MinimumPerClass ==
    \A g \in Generated :
        \A c \in IncludedClasses(g.a) :
            Minimum(g.a, c) > 0 =>
                CountIn(g.password, Alphabet(c, g.a.exclude_ambiguous))
                    >= Minimum(g.a, c)

\* C2 witness: a call with two required digits, ambiguous characters
\* excluded, whose shuffle moved characters, returns a password with exactly
\* two digits.
C2_Witness ==
    /\ pc = "done" /\ op = "generate_password" /\ result.kind = "return"
    /\ args.include_digits /\ args.min_digits = 2 /\ args.exclude_ambiguous
    /\ args.include_lowercase /\ args.min_lowercase = 1
    /\ result.value # random.required \o random.filler
    /\ CountIn(result.value, Alphabet("digits", TRUE)) = 2

\* C3 as claimed: generate_password raises the configuration error exactly
\* when length < 4, or no class is included, or the sum of all four minimum
\* counts exceeds length.
C3_ErrorIffAllMinimums ==
    (pc = "done" /\ op = "generate_password") =>
        ((result.kind = "raise" /\ result.error = "ValueError")
            <=> \/ args.length < 4
                \/ IncludedClasses(args) = {}
                \/ SumMinimum(args, Classes) > args.length)

\* C3 amended: generate_password raises the configuration error exactly
\* when length < 4, or no class is included, or the sum of the minimum
\* counts of the included classes exceeds length; otherwise it returns.
C3_ErrorIffIncludedMinimums ==
    (pc = "done" /\ op = "generate_password") =>
        /\ (result.kind = "raise" /\ result.error = "ValueError")
            <=> \/ args.length < 4
                \/ IncludedClasses(args) = {}
                \/ SumMinimum(args, IncludedClasses(args)) > args.length
        /\ result.kind \in {"raise", "return"}
        /\ result.kind = "raise" => result.error = "ValueError"

\* C3 witness: a call that returns although all four minimum counts sum to
\* more than length, a class with a positive minimum being left out.
C3_Witness ==
    /\ pc = "done" /\ op = "generate_password" /\ result.kind = "return"
    /\ SumMinimum(args, Classes) > args.length
    /\ SumMinimum(args, IncludedClasses(args)) = args.length

\* C4: with exclude_ambiguous set, a returned password holds none of
\* i, l, 1, L, o, 0, O, the characters of the symbol class included: the
\* symbol string, which is not filtered, holds none of the seven.
C4_NoAmbiguous ==
    /\ \A g \in Generated :
            g.a.exclude_ambiguous => Range(g.password) \cap AmbiguousSet = {}
    /\ Range(symbols) \cap AmbiguousSet = {}

\* C4 witness: a password returned with exclude_ambiguous set and all four
\* classes included, drawn where "o" is the other character secrets.choice
\* is let return: it holds "z" and the symbol "?" (drawn unfiltered) and
\* nothing else.
C4_Witness ==
    /\ pc = "done" /\ op = "generate_password" /\ result.kind = "return"
    /\ args.exclude_ambiguous
    /\ IncludedClasses(args) = Classes
    /\ args.min_lowercase >= 1 /\ args.min_symbols >= 1
    /\ Range(result.value) = {122, 63}

\* C9 speaks of an included class whose stripped alphabet is empty while
\* its minimum count is positive.  No call has one: every alphabet a
\* required character is drawn from is non-empty.
NoEmptiedClass ==
    (op \in {"generate_password", "main"}) =>
        LET a == IF op = "main" THEN MainKwargs(args) ELSE args
        IN  /\ \A k \in 1..Len(RequiredSlots(a)) : Len(RequiredSlots(a)[k]) > 0
            /\ \A c \in {"lowercase", "uppercase", "digits"} :
                    Alphabet(c, TRUE) # {}

\* the claim's anti-patterns, as it words them: three or more identical
\* characters in a row, and one of the runs 012, 123, ..., 789, 890
HasIdenticalRun(s) ==
    \E i \in 1..(Len(s) - 2) : s[i + 1] = s[i] /\ s[i + 2] = s[i]

HasDigitRun(s) ==
    \E i \in 1..(Len(s) - 2) :
        \E k \in 0..8 :
            /\ s[i] = 48 + k
            /\ s[i + 1] = 48 + k + 1
            /\ s[i + 2] = 48 + ((k + 2) % 10)

\* the presence flag analyze_strength reports for a class
PresenceFlag(report, c) ==
    CASE c = "lowercase" -> report.has_lowercase
      [] c = "uppercase" -> report.has_uppercase
      [] c = "digits" -> report.has_digits
      [] c = "symbols" -> report.has_symbols

\* C10: analyze_strength reports as present every included class with a
\* minimum count >= 1 of a password generate_password returned; and a
\* password generated with all four classes, every minimum >= 1 and
\* length >= 12 scores at least 85 and is "Very Strong".
C10_GeneratedScoresAgree ==
    \A g \in Generated :
        LET report == analyze_strength(g.password)
        IN  /\ \A c \in IncludedClasses(g.a) :
                    Minimum(g.a, c) >= 1 => PresenceFlag(report, c)
            /\ (/\ IncludedClasses(g.a) = Classes
                /\ \A c \in Classes : Minimum(g.a, c) >= 1
                /\ g.a.length >= 12)
                => (report.score >= 85 /\ report.strength = "Very Strong")

\* C10 witness: main, run with --length 12 and all four classes, prints a
\* password that has both a run of identical characters and a run of
\* sequential digits, and reports it with score 85.
C10_Witness ==
    /\ pc = "done" /\ op = "main" /\ result.kind = "exit"
    /\ args.length = 12 /\ args.count = 1
    /\ IncludedClasses(MainKwargs(args)) = Classes
    /\ Len(result.passwords) = 1
    /\ HasIdenticalRun(result.passwords[1])
    /\ HasDigitRun(result.passwords[1])
    /\ result.analysis[1].score = 85
    /\ result.analysis[1].strength = "Very Strong"

----------------------------------------------------------------------------
(* The calls of analyze_strength *)

\* the characters of the strings analysed: "a", "A", "1", "2", "3", "!",
\* a line feed, the Arabic-Indic digit three and the fullwidth digit one
AnalyzeChars == {97, 65, 49, 50, 51, 33, 10, 1635, 65297}

\* k characters of no class that form no run: " ~ ~ ~"
Pad(k) == [i \in 1..k |-> IF i % 2 = 1 THEN 32 ELSE 126]

\* "Ab3!Fg7&Kp9Q" and "aaaa1111"
ExamplePasswords ==
    {<<65, 98, 51, 33, 70, 103, 55, 38, 75, 112, 57, 81>>,
     <<97, 97, 97, 97, 49, 49, 49, 49>>}

AnalyzeInputs ==
    {b \o Pad(k) :
        b \in UNION {[1..n -> AnalyzeChars] : n \in 0..MaxBody},
        k \in 0..MaxPad}
    \cup ExamplePasswords

InitAnalyze ==
    /\ pc = "call"
    /\ op = "analyze_strength"
    /\ args \in [password : AnalyzeInputs]
    /\ random = NoDraws
    /\ result = NoResult

\* a call of analyze_strength
AnalyzeStrength ==
    /\ pc = "call"
    /\ op = "analyze_strength"
    /\ result' = Return(analyze_strength(args.password))
    /\ pc' = "done"
    /\ UNCHANGED <<op, args, random>>

SpecAnalyze == InitAnalyze /\ [][AnalyzeStrength]_vars

----------------------------------------------------------------------------
(* The calls of generate_passphrase *)

\* the values the model lets secrets.randbelow(n) return
RandBelowSample(n) == {k \in {0, 9, 10, 99, 100, n - 1} : k >= 0 /\ k < n}

\* the word draws of a call: the words at start, start + stride, ... of the
\* word list, wrapping around
WordDraws(n) ==
    {[i \in 1..Max(n, 0) |->
            word_list[((start + (i - 1) * stride) % Len(word_list)) + 1]] :
        start \in 0..(Len(word_list) - 1), stride \in 0..MaxStride}

\* the argument records generate_passphrase is called with; the separator
\* is the default "-"
PhraseArgs ==
    [num_words : 0..MaxWords, separator : {<<45>>}, capitalize : BOOLEAN]

InitPassphrase ==
    /\ pc = "call"
    /\ op = "generate_passphrase"
    /\ args \in PhraseArgs
    /\ random \in [words : WordDraws(args.num_words),
                   number : RandBelowSample(RandomLimit)]
    /\ result = NoResult

\* a call of generate_passphrase
GeneratePassphrase ==
    /\ pc = "call"
    /\ op = "generate_passphrase"
    /\ result' = generate_passphrase(args, random)
    /\ pc' = "done"
    /\ UNCHANGED <<op, args, random>>

SpecPassphrase == InitPassphrase /\ [][GeneratePassphrase]_vars

----------------------------------------------------------------------------
(* The claims about analyze_strength and generate_passphrase *)

\* the character classes as the claims word them, each by its fixed
\* alphabet: a lowercase letter a-z, an uppercase letter A-Z, a digit 0-9,
\* a symbol of the symbol string
ScoredAlphabet(c) == Alphabet(c, FALSE)

Present(s, c) == \E i \in 1..Len(s) : s[i] \in ScoredAlphabet(c)

\* the score and the label the claim gives a string
ClaimedScore(s) ==
    (IF Len(s) >= 12 THEN 25 ELSE IF Len(s) >= 8 THEN 15 ELSE 5)
    + 15 * Cardinality({c \in Classes : Present(s, c)})
    + (IF HasIdenticalRun(s) THEN 0 ELSE 10)
    + (IF HasDigitRun(s) THEN 0 ELSE 10)

ClaimedLabel(score) ==
    CASE score >= 85 -> "Very Strong"
      [] score < 85 /\ score >= 70 -> "Strong"
      [] score < 70 /\ score >= 50 -> "Moderate"
      [] score < 50 /\ score >= 30 -> "Weak"
      [] score < 30 -> "Very Weak"

Analysed == pc = "done" /\ op = "analyze_strength"

\* C5: analyze_strength scores a string L + 15 * k + R + S (L by length,
\* k the classes present, R = 10 without a run of 3 identical characters,
\* S = 10 without a run of sequential digits) and labels the score by the
\* thresholds 85, 70, 50, 30; "Ab3!Fg7&Kp9Q" scores 105 "Very Strong" and
\* "aaaa1111" scores 55 "Moderate".
C5_ScoreFormula ==
    Analysed =>
        /\ result.value.score = ClaimedScore(args.password)
        /\ result.value.strength = ClaimedLabel(result.value.score)
        /\ args.password = <<65, 98, 51, 33, 70, 103, 55, 38, 75, 112, 57, 81>>
            => (result.value.score = 105 /\ result.value.strength = "Very Strong")
        /\ args.password = <<97, 97, 97, 97, 49, 49, 49, 49>>
            => (result.value.score = 55 /\ result.value.strength = "Moderate")

\* C6: the score analyze_strength reports lies in 0 .. 100.
C6_ScoreInRange ==
    Analysed => result.value.score \in 0..100

\* the check a feedback string belongs to
CheckOf(message) ==
    CASE message = "Consider using at least 12 characters" -> "length"
      [] message = "Password is too short - use at least 8 characters" -> "length"
      [] message = "Add lowercase letters" -> "lowercase"
      [] message = "Add uppercase letters" -> "uppercase"
      [] message = "Add numbers" -> "digits"
      [] message = "Add special characters" -> "symbols"
      [] message = "Avoid repeating characters" -> "repeat"
      [] message = "Avoid sequential numbers" -> "sequential"

\* whether a check does not earn its full score on s
Misses(s, check) ==
    CASE check = "length" -> Len(s) < 12
      [] check = "repeat" -> HasIdenticalRun(s)
      [] check = "sequential" -> HasDigitRun(s)
      [] OTHER -> ~Present(s, check)

CheckOrder ==
    <<"length", "lowercase", "uppercase", "digits", "symbols", "repeat",
      "sequential">>

\* C8: the feedback list holds one entry for each check that does not earn
\* its full score and none for the others, in the order length, lowercase,
\* uppercase, digit, symbol, repeated characters, sequential numbers; it is
\* empty exactly for a string of length >= 12 with all four classes and
\* neither anti-pattern.
C8_FeedbackPerCheck ==
    Analysed =>
        LET s == args.password
            feedback == result.value.feedback
        IN  /\ [i \in 1..Len(feedback) |-> CheckOf(feedback[i])]
                = SelectSeq(CheckOrder, LAMBDA check : Misses(s, check))
            /\ feedback = <<>>
                <=> /\ Len(s) >= 12
                    /\ \A c \in Classes : Present(s, c)
                    /\ ~HasIdenticalRun(s)
                    /\ ~HasDigitRun(s)

\* str.split(separator) for a one-character separator
RECURSIVE Split(_, _)
Split(s, separator) ==
    IF \A i \in 1..Len(s) : s[i] # separator THEN <<s>>
    ELSE LET i == CHOOSE k \in 1..Len(s) :
                    s[k] = separator /\ \A j \in 1..(k - 1) : s[j] # separator
         IN  <<SubSeq(s, 1, i - 1)>> \o Split(SubSeq(s, i + 1, Len(s)), separator)

\* a word of the word list, its first letter a capital when capitalize is set
IsListWord(segment, capitalize) ==
    \E k \in 1..Len(word_list) :
        /\ Len(segment) = Len(word_list[k])
        /\ \A i \in 1..Len(segment) :
            segment[i] = IF capitalize /\ i = 1 THEN word_list[k][i] - 32
                         ELSE word_list[k][i]

\* the decimal form of an integer in 0 .. 999
IsDecimalBelow1000(segment) ==
    /\ Len(segment) \in 1..3
    /\ \A i \in 1..Len(segment) : segment[i] \in 48..57
    /\ Len(segment) > 1 => segment[1] # 48

\* the segments of the passphrase are n words of the list and a number
SegmentsAsClaimed ==
    LET segments == Split(result.value, 45)
        n == args.num_words
    IN  /\ Len(segments) = n + 1
        /\ \A i \in 1..n : IsListWord(segments[i], args.capitalize)
        /\ IsDecimalBelow1000(segments[n + 1])

\* C7 as claimed: for every word count n >= 0 the passphrase, split on "-",
\* has n + 1 segments: n words of the list (capitalized when asked) and the
\* decimal form of an integer in 0 .. 999.
C7_SegmentsFromZero ==
    (pc = "done" /\ op = "generate_passphrase" /\ args.num_words >= 0)
        => SegmentsAsClaimed

\* C7 amended: the same for every word count n >= 1.
C7_SegmentsFromOne ==
    (pc = "done" /\ op = "generate_passphrase" /\ args.num_words >= 1)
        => SegmentsAsClaimed

\* C7 witness: a passphrase of 4 capitalized words splits into 5 segments,
\* the last a three-digit number.
C7_Witness ==
    /\ pc = "done" /\ op = "generate_passphrase"
    /\ args.num_words = 4 /\ args.capitalize
    /\ random.words[1] # random.words[2]
    /\ Len(Split(result.value, 45)) = 5
    /\ Len(Split(result.value, 45)[5]) = 3

====
